---- MODULE Spec2Model ----
(***************************************************************************)
(* A model of the software rasterizer of src/main.rs: TextureBuffer,       *)
(* RenderContext::draw_indexed_triangles and the scanline fill below it.   *)
(*                                                                         *)
(* All geometry in the source is f32.  The model keeps f32's rounding: a   *)
(* value is s * m * 2^e with a 24-bit significand m, and every operation   *)
(* rounds its exact result to the nearest such value, ties to even, as     *)
(* IEEE 754 does.  NaN and the infinities are values of their own, so a    *)
(* division by a zero edge height yields what the hardware yields.  Not    *)
(* modelled: the sign of zero (no divisor of the source can be -0: each is *)
(* a difference or a product sum, which round-to-nearest makes +0), and    *)
(* the exponent range (the bounded inputs stay far inside it).             *)
(***************************************************************************)
EXTENDS Integers, Sequences, FiniteSets

\* ------------------------------------------------------------------ f32
\* Intermediate results are handed on as operator arguments rather than
\* bound by LET, so that each is computed once where it is used.

\* f32 carries a 24-bit significand (23 stored bits and the hidden one).
MantBits == 24

Two23 == 2^(MantBits - 1)
Two24 == 2^MantBits

NaN  == [k |-> "nan", s |-> 1, m |-> 0, e |-> 0]
PInf == [k |-> "inf", s |-> 1, m |-> 0, e |-> 0]
NInf == [k |-> "inf", s |-> -1, m |-> 0, e |-> 0]
Zero == [k |-> "fin", s |-> 1, m |-> 0, e |-> 0]
Half == [k |-> "fin", s |-> 1, m |-> 8388608, e |-> -24]
One  == [k |-> "fin", s |-> 1, m |-> 8388608, e |-> -23]
Two  == [k |-> "fin", s |-> 1, m |-> 8388608, e |-> -22]

Inf(s) == IF s = 1 THEN PInf ELSE NInf

IsNaN(a) == a.k = "nan"
IsInf(a) == a.k = "inf"
IsZero(a) == a.k = "fin" /\ a.m = 0

\* The number of bits of n (0 for 0), for 0 <= n < 2^31.
BitLen(n) ==
    IF n < 65536
    THEN IF n < 256
         THEN IF n < 16
              THEN IF n < 4 THEN (IF n < 2 THEN n ELSE 2)
                   ELSE (IF n < 8 THEN 3 ELSE 4)
              ELSE IF n < 64 THEN (IF n < 32 THEN 5 ELSE 6)
                   ELSE (IF n < 128 THEN 7 ELSE 8)
         ELSE IF n < 4096
              THEN IF n < 1024 THEN (IF n < 512 THEN 9 ELSE 10)
                   ELSE (IF n < 2048 THEN 11 ELSE 12)
              ELSE IF n < 16384 THEN (IF n < 8192 THEN 13 ELSE 14)
                   ELSE (IF n < 32768 THEN 15 ELSE 16)
    ELSE IF n < 16777216
         THEN IF n < 1048576
              THEN IF n < 262144 THEN (IF n < 131072 THEN 17 ELSE 18)
                   ELSE (IF n < 524288 THEN 19 ELSE 20)
              ELSE IF n < 4194304 THEN (IF n < 2097152 THEN 21 ELSE 22)
                   ELSE (IF n < 8388608 THEN 23 ELSE 24)
         ELSE IF n < 268435456
              THEN IF n < 67108864 THEN (IF n < 33554432 THEN 25 ELSE 26)
                   ELSE (IF n < 134217728 THEN 27 ELSE 28)
              ELSE IF n < 1073741824 THEN (IF n < 536870912 THEN 29 ELSE 30)
                   ELSE 31

Fin(s, m, e) == [k |-> "fin", s |-> s, m |-> m, e |-> e]

\* q rounded up may reach 2^24: it is then 2^23 one exponent higher.
Carry(s, q, e) == IF q = Two24 THEN Fin(s, Two23, e + 1) ELSE Fin(s, q, e)

\* Round to nearest, ties to even: q is the kept significand, r the bits cut
\* off, half their midpoint; sticky tells of a remainder below r.
RoundTo(s, q, r, half, e, sticky) ==
    Carry(s, IF r > half \/ (r = half /\ (sticky \/ q % 2 = 1)) THEN q + 1 ELSE q, e)

PackLen(s, M, e, sticky, L) ==
    IF L <= MantBits THEN Fin(s, M * 2^(MantBits - L), e - (MantBits - L))
    ELSE RoundTo(s, M \div 2^(L - MantBits), M % 2^(L - MantBits),
                 2^(L - MantBits - 1), e + (L - MantBits), sticky)

\* The f32 nearest to s * (M + d) * 2^e, where 0 <= d < 1 and d > 0 exactly
\* when sticky holds (sticky is only passed with M >= 2^24).
Pack(s, M, e, sticky) == IF M = 0 THEN Zero ELSE PackLen(s, M, e, sticky, BitLen(M))

\* `n as f32` for an integer |n| < 2^31.
FromInt(n) == Pack(IF n < 0 THEN -1 ELSE 1, IF n < 0 THEN -n ELSE n, 0, FALSE)

\* The f32 n / 2^k, for small n: how the inputs of the model are written.
Dyadic(n, k) == Pack(IF n < 0 THEN -1 ELSE 1, IF n < 0 THEN -n ELSE n, -k, FALSE)

FNeg(a) == IF a.k = "nan" \/ IsZero(a) THEN a ELSE [a EXCEPT !.s = -a.s]

\* The sum M, in units of 2^(hi.e - 3), with its sign.
AddPack(hi, M, st) ==
    Pack(IF M < 0 THEN -hi.s ELSE hi.s, IF M < 0 THEN -M ELSE M, hi.e - 3, st)

\* Lq is the smaller operand shifted to hi's scale (with 3 guard bits), st
\* whether bits of it were shifted out.
AddSum(hi, ls, Lq, st) ==
    AddPack(hi, IF hi.s = ls THEN hi.m * 8 + Lq
                ELSE hi.m * 8 - Lq - (IF st THEN 1 ELSE 0), st)

AddShift(hi, lo, d) ==
    IF d > MantBits + 2 THEN hi
    ELSE AddSum(hi, lo.s,
                IF d <= 3 THEN lo.m * 2^(3 - d) ELSE lo.m \div 2^(d - 3),
                d > 3 /\ lo.m % 2^(d - 3) # 0)

\* hi + lo of two finite non-zero values, hi.e >= lo.e.
AddFin(hi, lo) == AddShift(hi, lo, hi.e - lo.e)

FAdd(a, b) ==
    IF IsNaN(a) \/ IsNaN(b) THEN NaN
    ELSE IF IsInf(a) THEN (IF IsInf(b) /\ b.s # a.s THEN NaN ELSE a)
    ELSE IF IsInf(b) THEN b
    ELSE IF a.m = 0 THEN b
    ELSE IF b.m = 0 THEN a
    ELSE AddFin(IF a.e >= b.e THEN a ELSE b, IF a.e >= b.e THEN b ELSE a)

FSub(a, b) == FAdd(a, FNeg(b))

\* The 48-bit product as hi * 2^24 + lo, rounded.
MulPack(s, e, hi, lo) == Pack(s, hi * 4 + lo \div 4194304, e, lo % 4194304 # 0)
MulLow(s, e, h, lowsum) == MulPack(s, e, h + lowsum \div Two24, lowsum % Two24)
MulMid(s, e, hh, mid, ll) ==
    MulLow(s, e, hh + mid \div 4096, (mid % 4096) * 4096 + ll)
\* The significands in 12-bit halves, so that no partial product overflows.
MulLimbs(s, e, ah, al, bh, bl) == MulMid(s, e, ah * bh, ah * bl + al * bh, al * bl)

FMul(a, b) ==
    IF IsNaN(a) \/ IsNaN(b) THEN NaN
    ELSE IF IsInf(a) \/ IsInf(b)
         THEN (IF IsZero(a) \/ IsZero(b) THEN NaN ELSE Inf(a.s * b.s))
    ELSE IF a.m = 0 \/ b.m = 0 THEN Zero
    ELSE MulLimbs(a.s * b.s, a.e + b.e + 22,
                  a.m \div 4096, a.m % 4096, b.m \div 4096, b.m % 4096)

\* One step of long division: w more quotient digits.
DivAcc(acc, d, w) ==
    [q |-> acc.q * w + (acc.r * w) \div d, r |-> (acc.r * w) % d]

\* floor(n * 2^27 / d) and the remainder left, for n, d in [2^23, 2^24).
DivSteps(n, d) ==
    DivAcc(DivAcc(DivAcc(DivAcc(DivAcc([q |-> n \div d, r |-> n % d],
        d, 64), d, 64), d, 64), d, 64), d, 8)

DivPack(s, e, qs) == Pack(s, qs.q, e, qs.r # 0)

FDiv(a, b) ==
    IF IsNaN(a) \/ IsNaN(b) THEN NaN
    ELSE IF IsInf(a) THEN (IF IsInf(b) THEN NaN ELSE Inf(a.s * b.s))
    ELSE IF IsInf(b) THEN Zero
    ELSE IF b.m = 0 THEN (IF a.m = 0 THEN NaN ELSE Inf(a.s))
    ELSE IF a.m = 0 THEN Zero
    ELSE DivPack(a.s * b.s, a.e - b.e - 27, DivSteps(a.m, b.m))

\* a < b; false when either is NaN.
FLt(a, b) ==
    IF IsNaN(a) \/ IsNaN(b) THEN FALSE
    ELSE IF IsInf(a) THEN a.s = -1 /\ ~(IsInf(b) /\ b.s = -1)
    ELSE IF IsInf(b) THEN b.s = 1
    ELSE IF a.m = 0 THEN b.m # 0 /\ b.s = 1
    ELSE IF b.m = 0 THEN a.s = -1
    ELSE IF a.s # b.s THEN a.s = -1
    ELSE IF a.s = 1 THEN a.e < b.e \/ (a.e = b.e /\ a.m < b.m)
    ELSE b.e < a.e \/ (a.e = b.e /\ b.m < a.m)

\* a == b; false when either is NaN.
FEq(a, b) == ~IsNaN(a) /\ ~IsNaN(b) /\ a = b

FLe(a, b) == FLt(a, b) \/ FEq(a, b)

CeilParts(s, q, r) == FromInt(IF s = 1 THEN (IF r > 0 THEN q + 1 ELSE q) ELSE -q)

\* f32::ceil.
FCeil(a) ==
    IF a.k # "fin" \/ a.m = 0 \/ a.e >= 0 THEN a
    ELSE IF a.e <= -MantBits THEN (IF a.s = 1 THEN One ELSE Zero)
    ELSE CeilParts(a.s, a.m \div 2^(-a.e), a.m % 2^(-a.e))

\* f32::max and f32::min: a NaN operand is ignored.
FMax(a, b) == IF IsNaN(a) THEN b ELSE IF IsNaN(b) THEN a
              ELSE IF FLt(a, b) THEN b ELSE a
FMin(a, b) == IF IsNaN(a) THEN b ELSE IF IsNaN(b) THEN a
              ELSE IF FLt(b, a) THEN b ELSE a

I32Max == 2147483647
I32Min == -I32Max - 1

\* `a as i32`: truncates, saturates, NaN becomes 0.
AsI32(a) ==
    IF IsNaN(a) THEN 0
    ELSE IF IsInf(a) THEN (IF a.s = 1 THEN I32Max ELSE I32Min)
    ELSE IF a.m = 0 THEN 0
    ELSE IF a.e > 7 THEN (IF a.s = 1 THEN I32Max ELSE I32Min)
    ELSE IF a.e >= 0 THEN a.s * (a.m * 2^a.e)
    ELSE IF a.e <= -MantBits THEN 0
    ELSE a.s * (a.m \div 2^(-a.e))

U8Max == 255

ClampU8(i) == IF i < 0 THEN 0 ELSE IF i > U8Max THEN U8Max ELSE i

\* `a as u8`: truncates, saturates to 0..255, NaN becomes 0.
AsU8(a) == ClampU8(AsI32(a))

\* ------------------------------------------------------------ vectors

\* The x and y of a glm::Vec4.  z and w are carried by the source after the
\* perspective divide but no branch and no pixel reads them.
Vec(x, y) == [x |-> x, y |-> y]
VecAdd(a, b) == Vec(FAdd(a.x, b.x), FAdd(a.y, b.y))
VecSub(a, b) == Vec(FSub(a.x, b.x), FSub(a.y, b.y))
VecMul(a, c) == Vec(FMul(a.x, c), FMul(a.y, c))
Dot(a, b) == FAdd(FMul(a.x, b.x), FMul(a.y, b.y))

\* The attribute bundle V: the interpolated channels of Vertex (its uv).
VAdd(a, b) == [uv |-> VecAdd(a.uv, b.uv)]
VSub(a, b) == [uv |-> VecSub(a.uv, b.uv)]
VMul(a, c) == [uv |-> VecMul(a.uv, c)]

\* 255.0
F255 == [k |-> "fin", s |-> 1, m |-> 16711680, e |-> -16]

\* The pixel stage of main: [0, (uv.y * 255.0) as u8, (uv.x * 255.0) as u8, 255].
pixel_shader(v) ==
    << 0, AsU8(FMul(v.uv.y, F255)), AsU8(FMul(v.uv.x, F255)), U8Max >>

\* ----------------------------------------------------------- rasterizer
\* A triangle travels as a sequence of three (point, attribute) pairs, so
\* that a swap moves a point together with its attribute bundle.

RECURSIVE Flatten(_)
Flatten(ss) == IF ss = << >> THEN << >> ELSE Head(ss) \o Flatten(Tail(ss))

\* The number of values a Rust range lo..hi yields.
RangeLen(lo, hi) == IF hi > lo THEN hi - lo ELSE 0

snap(c) == FCeil(FSub(c, Half))

BaryF0(f1, f2) == << FSub(FSub(One, f1), f2), f1, f2 >>

BaryDenom(d00, d01, d11, d20, d21, denom) ==
    BaryF0(FDiv(FSub(FMul(d11, d20), FMul(d01, d21)), denom),
           FDiv(FSub(FMul(d00, d21), FMul(d01, d20)), denom))

BaryDots(v0, v1, v2) ==
    BaryDenom(Dot(v0, v0), Dot(v0, v1), Dot(v1, v1), Dot(v2, v0), Dot(v2, v1),
              FSub(FMul(Dot(v0, v0), Dot(v1, v1)), FMul(Dot(v0, v1), Dot(v0, v1))))

barycentric_coordinates(p, p0, p1, p2) ==
    BaryDots(VecSub(p1, p0), VecSub(p2, p0), VecSub(p, p0))

\* The sample point handed to barycentric_coordinates for pixel (x, y).
SamplePoint(x, y) == Vec(FromInt(x), FromInt(y))

\* One pixel-stage invocation and the TextureBuffer::set call that follows
\* it; the slopes are kept to tell which divisions reached the pixel.
Shade(s, lines, x, y, f) ==
    [x |-> x, y |-> y, f |-> f,
     color |-> pixel_shader(VAdd(VAdd(VMul(s[1][2], f[1]), VMul(s[2][2], f[2])),
                                 VMul(s[3][2], f[3]))),
     slopes |-> << lines[1][1], lines[2][1] >>]

Pixel(s, lines, x, y) ==
    Shade(s, lines, x, y,
          barycentric_coordinates(SamplePoint(x, y), s[1][1], s[2][1], s[3][1]))

RowPixels(s, lines, y, x_start, x_end) ==
    [j \in 1..RangeLen(x_start, x_end) |-> Pixel(s, lines, x_start + j - 1, y)]

\* px of one bounding line at the centre of scanline y.
EdgeX(line, y) ==
    FAdd(FMul(line[1], FSub(FAdd(FromInt(y), Half), line[2].y)), line[2].x)

\* Row without the .max(0.0) and .min(size.0) of x_start and x_end.
RowUnclamped(size, s, lines, y) ==
    RowPixels(s, lines, y,
              AsI32(snap(EdgeX(lines[1], y))),
              AsI32(snap(EdgeX(lines[2], y))))

Row(size, s, lines, y) ==
    RowPixels(s, lines, y,
              AsI32(FMax(snap(EdgeX(lines[1], y)), Zero)),
              AsI32(FMin(snap(EdgeX(lines[2], y)), FromInt(size[1]))))

Rows(size, s, lines, y_start, y_end) ==
    Flatten([i \in 1..RangeLen(y_start, y_end) |-> Row(size, s, lines, y_start + i - 1)])

\* y_start .. y_end of a flat triangle: the scanlines whose centre lies in
\* [p0.y, p2.y), clamped to the target.
ScanRows(size, s) ==
    [lo |-> AsI32(FMax(snap(s[1][1].y), Zero)),
     hi |-> AsI32(FMin(snap(s[3][1].y), FromInt(size[2])))]

RowsIn(size, s, lines, rows) == Rows(size, s, lines, rows.lo, rows.hi)

\* The pixels one flat triangle shades, in the order the loops visit them.
draw_flat_triangle_common(size, s, lines) ==
    RowsIn(size, s, lines, ScanRows(size, s))

\* (b.x - a.x) / (b.y - a.y)
Slope(a, b) == FDiv(FSub(b.x, a.x), FSub(b.y, a.y))

draw_flat_top_triangle(size, s) ==
    draw_flat_triangle_common(size, s,
        << << Slope(s[1][1], s[3][1]), s[1][1] >>,
           << Slope(s[2][1], s[3][1]), s[2][1] >> >>)

draw_flat_bottom_triangle(size, s) ==
    draw_flat_triangle_common(size, s,
        << << Slope(s[1][1], s[2][1]), s[1][1] >>,
           << Slope(s[1][1], s[3][1]), s[1][1] >> >>)

\* SwapByX with the swap on x left out.
KeepOrder(s, i, j) == s

\* if s[j].y < s[i].y { swap }, and the same on x.
SwapIf(c, s, i, j) == IF c THEN [s EXCEPT ![i] = s[j], ![j] = s[i]] ELSE s
SwapByY(s, i, j) == SwapIf(FLt(s[j][1].y, s[i][1].y), s, i, j)
SwapByX(s, i, j) == SwapIf(FLt(s[j][1].x, s[i][1].x), s, i, j)

\* The three conditional swaps that sort the points by y.
SortByY(s) == SwapByY(SwapByY(SwapByY(s, 1, 2), 2, 3), 1, 2)

\* pi and vi: the point of the long edge p0-p2, and its attribute bundle, at
\* parameter alpha.
SplitPoint(s, alpha) ==
    << VecAdd(s[1][1], VecMul(VecSub(s[3][1], s[1][1]), alpha)),
       VAdd(s[1][2], VMul(VSub(s[3][2], s[1][2]), alpha)) >>

\* The flat-bottom half and the flat-top half of a general triangle split at
\* si: major right when p1.x < pi.x, else major left.
SplitHalves(s, si) ==
    IF FLt(s[2][1].x, si[1].x)
    THEN << << s[1], s[2], si >>, << s[2], si, s[3] >> >>
    ELSE << << s[1], si, s[2] >>, << si, s[2], s[3] >> >>

DrawHalves(size, h) ==
    draw_flat_bottom_triangle(size, h[1]) \o draw_flat_top_triangle(size, h[2])

\* alpha = (p1.y - p0.y) / (p2.y - p0.y), and the split point at alpha.
SplitOf(s) ==
    SplitPoint(s, FDiv(FSub(s[2][1].y, s[1][1].y), FSub(s[3][1].y, s[1][1].y)))

DrawSorted(size, s) ==
    IF FEq(s[1][1].y, s[2][1].y)
    THEN draw_flat_top_triangle(size, SwapByX(s, 1, 2))
    ELSE IF FEq(s[2][1].y, s[3][1].y)
    THEN draw_flat_bottom_triangle(size, SwapByX(s, 2, 3))
    ELSE DrawHalves(size, SplitHalves(s, SplitOf(s)))

draw_triangle(size, p0, p1, p2, v0, v1, v2) ==
    DrawSorted(size, SortByY(<< << p0, v0 >>, << p1, v1 >>, << p2, v2 >> >>))

\* p /= p.w, for the x and y of a clip-space position.
PerspectiveDivide(p) == Vec(FDiv(p.x, p.w), FDiv(p.y, p.w))

transform_to_target_coordinates(size, v) ==
    Vec(FMul(FAdd(v.x, One), FDiv(FromInt(size[1]), Two)),
        FMul(FAdd(v.y, One), FDiv(FromInt(size[2]), Two)))

\* (d0.x * d1.y) - (d0.y * d1.x)
Cross(d0, d1) == FSub(FMul(d0.x, d1.y), FMul(d0.y, d1.x))

\* The backface test of draw_indexed_triangles on divided positions.
IsBackface(p0, p1, p2) == FLt(Cross(VecSub(p2, p0), VecSub(p2, p1)), Zero)

\* --------------------------------------------------------- TextureBuffer

\* TextureBuffer::new: size.0 * size.1 * bytes_per_pixel zero bytes,
\* at offsets 0 .. len - 1.
NewTextureBuffer(size, bpp) ==
    [size |-> size, bytes_per_pixel |-> bpp,
     buffer |-> [o \in 0..(size[1] * size[2] * bpp - 1) |-> 0]]

BufferLen(tb) == tb.size[1] * tb.size[2] * tb.bytes_per_pixel

\* size_of_val(color) for color: &[u8; 4].
ColorBytes == 4

\* The byte offsets TextureBuffer::set copies to: size_of_val(color) bytes
\* from bytes_per_pixel * (y * width + x) on.
SetOffsets(tb, point) ==
    LET index == tb.bytes_per_pixel * (point[2] * tb.size[1] + point[1])
    IN  index..(index + ColorBytes - 1)

\* The buffer after TextureBuffer::set, as far as the copy stays inside the
\* allocation.
SetBytes(tb, point, color) ==
    LET index == tb.bytes_per_pixel * (point[2] * tb.size[1] + point[1])
    IN  [tb EXCEPT !.buffer =
            [o \in DOMAIN tb.buffer |->
                IF o \in SetOffsets(tb, point) THEN color[o - index + 1]
                ELSE tb.buffer[o]]]

\* TextureBuffer::clear.
ClearBytes(tb, value) == [tb EXCEPT !.buffer = [o \in DOMAIN tb.buffer |-> value]]

\* The target after the set calls of one triangle, in order.
RECURSIVE ApplyCalls(_, _)
ApplyCalls(tb, calls) ==
    IF calls = << >> THEN tb
    ELSE ApplyCalls(SetBytes(tb, << Head(calls).x, Head(calls).y >>,
                             Head(calls).color), Tail(calls))

\* ---------------------------------------------------------------- state

VARIABLES
    cull_backface,    \* RenderContext.cull_backface
    target,           \* the TextureBuffer behind RenderContext.target
    vertices,         \* draw_indexed_triangles' vertices argument
    indices,          \* draw_indexed_triangles' indices argument
    positions,        \* the clip-space positions collected so far
    current_indices,  \* the slice of indices not yet consumed
    pc,               \* where the call stands
    vs_calls,         \* the vertices the vertex stage was invoked on, in order
    tri_log,          \* one record per loop iteration that matched a triple
    last_set          \* the last direct TextureBuffer::set call, if any

vars == << cull_backface, target, vertices, indices, positions,
           current_indices, pc, vs_calls, tri_log, last_set >>

\* The vertex stage of the model: the clip-space position the vertex carries
\* (main's closure multiplies the position by a fixed matrix).
vertex_shader(v) == v.clip

\* The attribute bundle of a vertex.
Attr(v) == [uv |-> v.uv]

NoSet == [point |-> << 0, 0 >>, offsets |-> {}, called |-> FALSE]

\* -------------------------------------------------------------- actions

\* ShadeVertex with the vertex stage invoked twice on the vertex.
ShadeVertexTwice ==
    /\ pc = "vertex_stage"
    /\ Len(positions) < Len(vertices)
    /\ positions' = Append(positions, vertex_shader(vertices[Len(positions) + 1]))
    /\ vs_calls' = vs_calls \o << Len(positions), Len(positions) >>
    /\ UNCHANGED << cull_backface, target, vertices, indices, current_indices,
                    pc, tri_log, last_set >>

\* One step of vertices.iter_mut().map(&self.vertex_shader): the next vertex
\* is shaded and its position collected.
ShadeVertex ==
    /\ pc = "vertex_stage"
    /\ Len(positions) < Len(vertices)
    /\ positions' = Append(positions, vertex_shader(vertices[Len(positions) + 1]))
    /\ vs_calls' = Append(vs_calls, Len(positions))
    /\ UNCHANGED << cull_backface, target, vertices, indices, current_indices,
                    pc, tri_log, last_set >>

\* collect() is done; current_indices = indices and the loop is entered.
EnterLoop ==
    /\ pc = "vertex_stage"
    /\ Len(positions) = Len(vertices)
    /\ pc' = "loop"
    /\ current_indices' = indices
    /\ UNCHANGED << cull_backface, target, vertices, indices, positions,
                    vs_calls, tri_log, last_set >>

\* Culled with the `continue` never taken.
NeverCulled(cull, p0, p1, p2) == FALSE

\* if self.cull_backface { ... < 0.0 { continue } }
Culled(cull, p0, p1, p2) == cull /\ IsBackface(p0, p1, p2)

\* What one loop iteration does with the triple tri: whether it is culled, and
\* the pixels draw_triangle shades if it is not.
Iteration(size, tri, vs, culled, p0, p1, p2) ==
    [tri |-> tri, culled |-> culled,
     calls |-> IF culled THEN << >>
               ELSE draw_triangle(size,
                        transform_to_target_coordinates(size, p0),
                        transform_to_target_coordinates(size, p1),
                        transform_to_target_coordinates(size, p2),
                        Attr(vs[tri[1] + 1]), Attr(vs[tri[2] + 1]),
                        Attr(vs[tri[3] + 1]))]

Assemble(size, cull, tri, vs, p0, p1, p2) ==
    Iteration(size, tri, vs, Culled(cull, p0, p1, p2), p0, p1, p2)

\* One iteration of the loop whose slice pattern [i0, i1, i2, rest @ ..]
\* matches: the triple is consumed, its positions divided by w, the triangle
\* culled or drawn.  Indices are 0-based in the source, sequences 1-based here.
Triangle ==
    /\ pc = "loop"
    /\ Len(current_indices) >= 3
    /\ current_indices' = SubSeq(current_indices, 4, Len(current_indices))
    /\ tri_log' = Append(tri_log,
            Assemble(target.size, cull_backface, SubSeq(current_indices, 1, 3),
                     vertices,
                     PerspectiveDivide(positions[current_indices[1] + 1]),
                     PerspectiveDivide(positions[current_indices[2] + 1]),
                     PerspectiveDivide(positions[current_indices[3] + 1])))
    /\ target' = ApplyCalls(target, tri_log'[Len(tri_log')].calls)
    /\ UNCHANGED << cull_backface, vertices, indices, positions, pc, vs_calls,
                    last_set >>

\* The slice pattern no longer matches (fewer than 3 indices are left): break,
\* and draw_indexed_triangles returns.
Return ==
    /\ pc = "loop"
    /\ Len(current_indices) < 3
    /\ pc' = "returned"
    /\ UNCHANGED << cull_backface, target, vertices, indices, positions,
                    current_indices, vs_calls, tri_log, last_set >>

\* What a direct TextureBuffer::set(point, color) call does to the state.  The
\* copy is an unchecked copy_nonoverlapping of size_of_val(color) bytes: where
\* it runs past the allocation the behaviour is undefined, and the build either
\* goes on (the bytes beyond land in memory the buffer does not own) or faults.
SetPixel ==
    /\ pc = "buffer"
    /\ \E x \in 0..(target.size[1] - 1), y \in 0..(target.size[2] - 1),
          color \in { << 17, 34, 51, 68 >>, << 85, 102, 119, 136 >> } :
        /\ target' = SetBytes(target, << x, y >>, color)
        /\ last_set' = [point |-> << x, y >>,
                        offsets |-> SetOffsets(target, << x, y >>),
                        called |-> TRUE]
        /\ IF SetOffsets(target, << x, y >>) \subseteq DOMAIN target.buffer
           THEN pc' = "buffer"
           ELSE pc' \in { "buffer", "faulted" }
    /\ UNCHANGED << cull_backface, vertices, indices, positions,
                    current_indices, vs_calls, tri_log >>

\* A TextureBuffer::clear(value) call.
ClearAll ==
    /\ pc = "buffer"
    /\ \E value \in { 0, U8Max } : target' = ClearBytes(target, value)
    /\ last_set' = NoSet
    /\ UNCHANGED << cull_backface, vertices, indices, positions,
                    current_indices, pc, vs_calls, tri_log >>

Next == ShadeVertex \/ EnterLoop \/ Triangle \/ Return

\* ---------------------------------------------------------------- inputs

\* main's TextureBuffer::new(window_size, 4).
BytesPerPixel == 4

\* The attribute bundles of one cube face of main, by position in the array.
FaceUV == << Vec(Zero, Zero), Vec(One, Zero), Vec(One, One), Vec(Zero, One) >>

\* The w the vertex stage gives the k-th vertex: 1 or 2.
ClipW(k) == FromInt(1 + (k % 2))

\* The vertex at array position k whose divided position is (x, y).
VertexAt(k, x, y) ==
    [clip |-> [x |-> FMul(x, ClipW(k)), y |-> FMul(y, ClipW(k)), w |-> ClipW(k)],
     uv |-> FaceUV[k]]

\* The state in which draw_indexed_triangles(ixs, vs) is called on a fresh
\* target of the given size.
CallState(size, cull, vs, ixs) ==
    /\ cull_backface = cull
    /\ target = NewTextureBuffer(size, BytesPerPixel)
    /\ vertices = vs
    /\ indices = ixs
    /\ positions = << >>
    /\ current_indices = ixs
    /\ pc = "vertex_stage"
    /\ vs_calls = << >>
    /\ tri_log = << >>
    /\ last_set = NoSet

\* The non-decreasing index tuples of length n over 0..(m - 1): one for each
\* multiset of n grid points.
RECURSIVE Sorted(_, _)
Sorted(n, m) ==
    IF n = 0 THEN { << >> }
    ELSE UNION { { Append(s, k) :
                     k \in (IF s = << >> THEN 0 ELSE s[Len(s)])..(m - 1) } :
                 s \in Sorted(n - 1, m) }

\* --- the calls of Spec: one triangle of a coarse grid that reaches past the
\* target on every side, submitted alternately as (0, 1, 2) and with two of its
\* indices exchanged.

GridColumns == 3
GridPoints == 9
Width == 4
Height == 3
MaxIndices == 6

\* The divided coordinate of grid line i: -1.5, 0, 1.5, ... (the view volume
\* is [-1, 1]).
GridCoord(i) == Dyadic(3 * i - 3, 1)

\* Grid point g lies in column g % GridColumns of row g \div GridColumns.
GridVertex(k, g) ==
    VertexAt(k, GridCoord(g % GridColumns), GridCoord(g \div GridColumns))

\* A fourth vertex shares the first one's position and is never indexed, as
\* the 24 vertices of main's cube share 8 positions.
GridArrays ==
    { << GridVertex(1, t[1]), GridVertex(2, t[2]), GridVertex(3, t[3]),
         GridVertex(4, t[1]) >> : t \in Sorted(3, GridPoints) }

Exchanges == { << 1, 0, 2 >>, << 0, 2, 1 >>, << 2, 1, 0 >> }

\* The first n indices of (0, 1, 2), e, (0, 1, 2), e, ...
Submissions(e, n) ==
    [j \in 1..n |-> IF ((j - 1) \div 3) % 2 = 0 THEN (j - 1) % 3
                    ELSE e[((j - 1) % 3) + 1]]

IndexLists == { Submissions(e, n) : e \in Exchanges, n \in 0..MaxIndices }

Sizes == { << Width, Height >>, << Height, Width >> }

Init ==
    \E size \in Sizes, vs \in GridArrays, ixs \in IndexLists, cull \in BOOLEAN :
        CallState(size, cull, vs, ixs)

Spec == Init /\ [][Next]_vars

\* --- the calls of SpecQuad: two triangles (0, 1, 2) and (2, 1, 3) that share
\* the edge between vertices 1 and 2, on quarter-pixel scanline positions.

QuadColumns == 2
QuadRows == 6
QuadWidth == 4
QuadHeight == 5

\* Divided x of column i: -1, 1 (the side edges of the view volume); divided y
\* of row j: -1.5, -1, -0.5, 0, 0.5, 1.
QuadVertex(k, g) ==
    VertexAt(k, FromInt(2 * (g % QuadColumns) - 1), Dyadic((g \div QuadColumns) - 3, 1))

QuadArrays ==
    { << QuadVertex(1, t[1]), QuadVertex(2, t[2]), QuadVertex(3, t[3]),
         QuadVertex(4, t[4]) >> : t \in Sorted(4, QuadColumns * QuadRows) }

InitQuad ==
    \E vs \in QuadArrays :
        CallState(<< QuadWidth, QuadHeight >>, FALSE, vs, << 0, 1, 2, 2, 1, 3 >>)

SpecQuad == InitQuad /\ [][Next]_vars

\* --- the calls of SpecCollinear: one triangle whose three vertices lie on a
\* line (or coincide), on an eighth-pixel grid.

LineColumns == 6
LineRows == 6
LineWidth == 3
LineHeight == 5

\* Divided x of column i: (3i - 9) / 8; divided y of row j: (j - 3) / 2.
LineVertex(k, g) ==
    VertexAt(k, Dyadic(3 * (g % LineColumns) - 9, 3), Dyadic((g \div LineColumns) - 3, 1))

\* Whether grid points a, b, c lie on one line.
OnOneLine(a, b, c) ==
    ((b % LineColumns) - (a % LineColumns)) * ((c \div LineColumns) - (a \div LineColumns))
    = ((b \div LineColumns) - (a \div LineColumns)) * ((c % LineColumns) - (a % LineColumns))

LineArrays ==
    { << LineVertex(1, t[1]), LineVertex(2, t[2]), LineVertex(3, t[3]) >> :
        t \in { u \in Sorted(3, LineColumns * LineRows) : OnOneLine(u[1], u[2], u[3]) } }

InitCollinear ==
    \E vs \in LineArrays, cull \in BOOLEAN :
        CallState(<< LineWidth, LineHeight >>, cull, vs, << 0, 1, 2 >>)

SpecCollinear == InitCollinear /\ [][Next]_vars

\* --- the calls of SpecBuffer: set and clear on a TextureBuffer of any small
\* size and pixel width.

MaxSide == 2
MaxBpp == 5

InitBuffer ==
    /\ \E w \in 1..MaxSide, h \in 1..MaxSide, bpp \in 1..MaxBpp :
            target = NewTextureBuffer(<< w, h >>, bpp)
    /\ cull_backface = FALSE
    /\ vertices = << >>
    /\ indices = << >>
    /\ positions = << >>
    /\ current_indices = << >>
    /\ pc = "buffer"
    /\ vs_calls = << >>
    /\ tri_log = << >>
    /\ last_set = NoSet

NextBuffer == SetPixel \/ ClearAll

SpecBuffer == InitBuffer /\ [][NextBuffer]_vars

\* ---------------------------------------------------------------- claims

\* The divided position of vertex i (0-based) and its place on the target.
Divided(i) == PerspectiveDivide(positions[i + 1])
OnTarget(i) == transform_to_target_coordinates(target.size, Divided(i))

\* The cross product the cull test takes of a logged triple.
CrossOf(tri) ==
    Cross(VecSub(Divided(tri[3]), Divided(tri[1])),
          VecSub(Divided(tri[3]), Divided(tri[2])))

\* The triangle has zero area.  On the grids of this module every coordinate,
\* difference and product is a short dyadic number, so the f32 value is exact.
ZeroArea(tri) ==
    FEq(Cross(VecSub(OnTarget(tri[3]), OnTarget(tri[1])),
              VecSub(OnTarget(tri[3]), OnTarget(tri[2]))), Zero)

\* The pixels an iteration wrote, and the pixels with their colours.
Written(entry) == { << entry.calls[i].x, entry.calls[i].y >> : i \in DOMAIN entry.calls }
Coloured(entry) ==
    { << entry.calls[i].x, entry.calls[i].y, entry.calls[i].color >> :
        i \in DOMAIN entry.calls }

\* What draw_triangle shades for a logged triple on a target of the given
\* size, the triangle staying where it is.
DrawnOn(size, tri) ==
    draw_triangle(size, OnTarget(tri[1]), OnTarget(tri[2]), OnTarget(tri[3]),
                  Attr(vertices[tri[1] + 1]), Attr(vertices[tri[2] + 1]),
                  Attr(vertices[tri[3] + 1]))

\* A target one pixel wider and one pixel higher.
Larger(size) == << size[1] + 1, size[2] + 1 >>

OnScreen(size, c) == c.x < size[1] /\ c.y < size[2]

Range(seq) == { seq[i] : i \in DOMAIN seq }

\* C1: every TextureBuffer::set call of the rasterizer has 0 <= x < width and
\* 0 <= y < height, and a triangle that reaches past the target is clipped
\* pixel by pixel: it writes exactly those pixels, with the same weights and
\* colours, that it writes on a target one pixel wider and higher and that
\* lie on the target.
C1_SetInBounds ==
    /\ \A k \in DOMAIN tri_log : \A i \in DOMAIN tri_log[k].calls :
          /\ 0 <= tri_log[k].calls[i].x /\ tri_log[k].calls[i].x < target.size[1]
          /\ 0 <= tri_log[k].calls[i].y /\ tri_log[k].calls[i].y < target.size[2]
    /\ pc = "returned" =>
          \A k \in DOMAIN tri_log :
              ~tri_log[k].culled =>
                  Range(tri_log[k].calls)
                  = { d \in Range(DrawnOn(Larger(target.size), tri_log[k].tri)) :
                        OnScreen(target.size, d) }

\* C1 witness: a drawn triangle that wrote pixels and would write more on the
\* larger target, i.e. part of it was dropped and the rest was written.
C1_PartlyDropped ==
    /\ pc = "returned"
    /\ \E k \in DOMAIN tri_log :
          /\ tri_log[k].calls # << >>
          /\ Len(DrawnOn(Larger(target.size), tri_log[k].tri)) > Len(tri_log[k].calls)

\* C2: a call whose index list has a length that is no multiple of 3 does not
\* return normally.
C2_OddListRejected == pc = "returned" => Len(indices) % 3 = 0

\* Screen coordinates in eighths of a pixel, as integers.
Eighths(a) == AsI32(FMul(a, FromInt(8)))
Corner(i) == [x |-> Eighths(OnTarget(i).x), y |-> Eighths(OnTarget(i).y)]
Centre(x, y) == [x |-> 8 * x + 4, y |-> 8 * y + 4]

\* Twice the signed area of (a, b, c).
Edge(a, b, c) == (b.x - a.x) * (c.y - a.y) - (b.y - a.y) * (c.x - a.x)

StrictlyInside(c, p0, p1, p2) ==
    \/ Edge(p0, p1, c) > 0 /\ Edge(p1, p2, c) > 0 /\ Edge(p2, p0, c) > 0
    \/ Edge(p0, p1, c) < 0 /\ Edge(p1, p2, c) < 0 /\ Edge(p2, p0, c) < 0

\* c lies on the segment from a to b, not at an end.
OnOpenEdge(c, a, b) ==
    /\ Edge(a, b, c) = 0
    /\ (c.x - a.x) * (b.x - a.x) + (c.y - a.y) * (b.y - a.y) > 0
    /\ (c.x - b.x) * (a.x - b.x) + (c.y - b.y) * (a.y - b.y) > 0

\* Vertices 0 and 3 lie strictly on opposite sides of the edge from 1 to 2.
OppositeSides == Edge(Corner(1), Corner(2), Corner(0)) * Edge(Corner(1), Corner(2), Corner(3)) < 0

InsideUnion(c) ==
    \/ StrictlyInside(c, Corner(0), Corner(1), Corner(2))
    \/ StrictlyInside(c, Corner(2), Corner(1), Corner(3))
    \/ OnOpenEdge(c, Corner(1), Corner(2))

\* C3: of two non-degenerate triangles (0, 1, 2) and (2, 1, 3) on opposite
\* sides of their shared edge, no pixel is written by both, and every pixel
\* whose centre lies strictly inside their union is written.
C3_SharedEdgeExact ==
    (pc = "returned" /\ Len(tri_log) = 2 /\ OppositeSides) =>
        /\ Written(tri_log[1]) \cap Written(tri_log[2]) = {}
        /\ \A x \in 0..(target.size[1] - 1), y \in 0..(target.size[2] - 1) :
              InsideUnion(Centre(x, y)) =>
                  << x, y >> \in Written(tri_log[1]) \cup Written(tri_log[2])

\* C4: of two successive submissions of a triangle of non-zero area, which
\* differ by an exchange of two indices, exactly one is culled when
\* cull_backface is set, and both write the same pixels with the same colours
\* when it is not.
C4_WindingSymmetry ==
    \A k \in 1..(Len(tri_log) - 1) :
        ~FEq(CrossOf(tri_log[k].tri), Zero) =>
            IF cull_backface
            THEN tri_log[k].culled # tri_log[k + 1].culled
            ELSE /\ ~tri_log[k].culled /\ ~tri_log[k + 1].culled
                 /\ Coloured(tri_log[k]) = Coloured(tri_log[k + 1])

\* C4 witness: both windings of a triangle of non-zero area were drawn with
\* culling off, and pixels were written.
C4_BothWindingsDrawn ==
    /\ ~cull_backface
    /\ Len(tri_log) = 2
    /\ tri_log[1].tri # tri_log[2].tri
    /\ ~FEq(CrossOf(tri_log[1].tri), Zero)
    /\ tri_log[2].calls # << >>

\* C5: a triangle of zero area causes no pixel-stage invocation and no write,
\* and no written pixel comes from a slope that is a division by a zero edge
\* height (an infinite or NaN slope).
C5_ZeroAreaDrawsNothing ==
    \A k \in DOMAIN tri_log :
        /\ ZeroArea(tri_log[k].tri) => tri_log[k].calls = << >>
        /\ \A i \in DOMAIN tri_log[k].calls :
              /\ tri_log[k].calls[i].slopes[1].k = "fin"
              /\ tri_log[k].calls[i].slopes[2].k = "fin"

\* C6: with cull_backface set, the iteration on a triple whose cross product
\* is negative leaves the target unchanged, invokes no pixel stage and goes on
\* to the rest of the index list; every complete triple of the list has had
\* its iteration when the call returns.
C6_CulledLeavesTarget ==
    /\ [][(/\ pc = "loop" /\ Len(current_indices) >= 3 /\ cull_backface
           /\ FLt(CrossOf(SubSeq(current_indices, 1, 3)), Zero))
          => (/\ target' = target
              /\ Len(tri_log') = Len(tri_log) + 1
              /\ tri_log'[Len(tri_log')].calls = << >>
              /\ current_indices' = SubSeq(current_indices, 4, Len(current_indices))
              /\ pc' = "loop")]_vars
    /\ [](pc = "returned" => Len(tri_log) = Len(indices) \div 3)

\* C6 witness: a culled triangle was followed by one that wrote pixels.
C6_DrawnAfterCulled ==
    /\ cull_backface
    /\ Len(tri_log) = 2
    /\ tri_log[1].culled /\ tri_log[1].calls = << >>
    /\ tri_log[2].calls # << >>
    /\ \E o \in DOMAIN target.buffer : target.buffer[o] # 0

\* C7: the vertex stage is invoked once on each element of the vertex array,
\* in order, and all of these invocations have happened before the first
\* triangle is assembled, hence before the first pixel-stage invocation.
C7_VertexStageOnce ==
    /\ vs_calls = [i \in 1..Len(positions) |-> i - 1]
    /\ (pc # "vertex_stage" \/ tri_log # << >>) => Len(vs_calls) = Len(vertices)

\* C7 witness: the call returned with one vertex never indexed and the others
\* indexed twice, one of the two triangles culled, the other shaded.
C7_SharedAndUnusedVertices ==
    /\ pc = "returned"
    /\ Len(indices) = 6
    /\ Len(vs_calls) = 4
    /\ \A j \in DOMAIN indices : indices[j] # 3
    /\ \E k \in DOMAIN tri_log : tri_log[k].culled
    /\ \E k \in DOMAIN tri_log : tri_log[k].calls # << >>

FAbs(a) == IF a.k = "nan" THEN a ELSE [a EXCEPT !.s = 1]

\* C8: the weights computed for every shaded pixel of a triangle of non-zero
\* area lie in [0, 1] and sum to 1 (to within 2^-20).
C8_WeightsPartitionUnity ==
    \A k \in DOMAIN tri_log :
        ~ZeroArea(tri_log[k].tri) =>
            \A i \in DOMAIN tri_log[k].calls :
                /\ \A j \in 1..3 : /\ FLe(Zero, tri_log[k].calls[i].f[j])
                                   /\ FLe(tri_log[k].calls[i].f[j], One)
                /\ FLe(FAbs(FSub(FAdd(FAdd(tri_log[k].calls[i].f[1],
                                           tri_log[k].calls[i].f[2]),
                                      tri_log[k].calls[i].f[3]), One)),
                       Dyadic(1, 20))

\* C9: a set call on an in-range point writes only offsets inside the
\* allocation, starting at bytes_per_pixel * (y * width + x) and staying
\* within the bytes_per_pixel bytes of that pixel.
C9_SetStaysInPixel ==
    last_set.called =>
        /\ last_set.offsets \subseteq 0..(BufferLen(target) - 1)
        /\ \A o \in last_set.offsets :
              /\ o >= target.bytes_per_pixel
                      * (last_set.point[2] * target.size[1] + last_set.point[1])
              /\ o < target.bytes_per_pixel
                      * (last_set.point[2] * target.size[1] + last_set.point[1] + 1)

\* The points of a logged triple sorted as draw_triangle sorts them.
SortedOf(tri) ==
    SortByY(<< << OnTarget(tri[1]), Attr(vertices[tri[1] + 1]) >>,
               << OnTarget(tri[2]), Attr(vertices[tri[2] + 1]) >>,
               << OnTarget(tri[3]), Attr(vertices[tri[3] + 1]) >> >>)

\* Neither the flat-top nor the flat-bottom case.
General(s) == ~FEq(s[1][1].y, s[2][1].y) /\ ~FEq(s[2][1].y, s[3][1].y)

RowSet(size, rows) == { y \in 0..(size[2] - 1) : rows.lo <= y /\ y < rows.hi }

HalfRows(size, s, n) == RowSet(size, ScanRows(size, SplitHalves(s, SplitOf(s))[n]))

\* C10: draw_triangle shades no pixel twice, and the two halves of a general
\* triangle of non-zero area cover disjoint scanline ranges that together are
\* the scanlines between its top and bottom vertex.
C10_OncePerPixel ==
    \A k \in DOMAIN tri_log :
        /\ \A i, j \in DOMAIN tri_log[k].calls :
              (tri_log[k].calls[i].x = tri_log[k].calls[j].x
               /\ tri_log[k].calls[i].y = tri_log[k].calls[j].y) => i = j
        /\ (/\ ~tri_log[k].culled /\ ~ZeroArea(tri_log[k].tri)
            /\ General(SortedOf(tri_log[k].tri))) =>
              /\ HalfRows(target.size, SortedOf(tri_log[k].tri), 1)
                 \cap HalfRows(target.size, SortedOf(tri_log[k].tri), 2) = {}
              /\ HalfRows(target.size, SortedOf(tri_log[k].tri), 1)
                 \cup HalfRows(target.size, SortedOf(tri_log[k].tri), 2)
                 = RowSet(target.size, ScanRows(target.size, SortedOf(tri_log[k].tri)))

====
